---- MODULE Spec2Model ----
(***************************************************************************)
(* A model of crates/sqlez/src/connection.rs: the Connection wrapper over  *)
(* the embedded SQL engine's native handle, together with the part of the  *)
(* engine (handles, named stores, result codes) that the wrapper drives;   *)
(* and of crates/editor/src/mouse_context_menu.rs.                         *)
(***************************************************************************)
EXTENDS Integers, Sequences, FiniteSets, TLC

VARIABLES
    conns,      \* the Connection values that are alive, by the variable holding them
    handles,    \* the engine's native handles, in allocation order (index = pointer)
    stores,     \* the engine's databases, by store key
    origin,     \* history: how each live Connection was opened, and with which name
    result,     \* what the last operation returned (and what the engine told it)
    misuse,     \* TRUE once an engine call was made on a closed handle
    code,       \* the input of error_to_result
    converted,  \* the value error_to_result returned for it
    editor,     \* the Editor deploy_context_menu is called on
    stmts,      \* the Statement values that are alive, by the variable holding them
    threads     \* the thread owning each Connection, and the call each thread is inside

vars == <<conns, origin, handles, stores, result, misuse, code, converted, editor,
          stmts, threads>>

----------------------------------------------------------------------------
(* Bounds of the model *)

\* how many native handles the engine hands out in one run
MaxHandles == 2
\* the last display point of the buffer the editor shows
MaxPoint == 2
\* the largest row identifier a table holds
MaxRowid == 2
\* the largest result code error_to_result is applied to
MaxCode == 120

----------------------------------------------------------------------------
(* Result codes of the engine (libsqlite3_sys) *)

SQLITE_OK == 0
SQLITE_ERROR == 1
SQLITE_BUSY == 5
SQLITE_NOMEM == 7
SQLITE_CANTOPEN == 14
SQLITE_MISUSE == 21
SQLITE_ROW == 100
SQLITE_DONE == 101
\* two extended result codes
SQLITE_LOCKED_SHAREDCACHE == 262
SQLITE_ABORT_ROLLBACK == 516
SQLITE_CONSTRAINT_UNIQUE == 2067

\* sqlite3_errstr: the engine's English text for a result code. The text is
\* chosen by the primary code (the low byte), except for the few extended
\* codes that have a text of their own; it is never a null pointer.
sqlite3_errstr(rc) ==
    IF rc = SQLITE_ABORT_ROLLBACK THEN "abort due to ROLLBACK"
    ELSE IF rc = SQLITE_ROW THEN "another row available"
    ELSE IF rc = SQLITE_DONE THEN "no more rows available"
    ELSE LET primary == rc % 256 IN
         IF primary = SQLITE_OK THEN "not an error"
         ELSE IF primary = SQLITE_ERROR THEN "SQL logic error"
         ELSE IF primary = SQLITE_BUSY THEN "database is locked"
         ELSE IF primary = 6 THEN "database table is locked"
         ELSE IF primary = SQLITE_NOMEM THEN "out of memory"
         ELSE IF primary = SQLITE_CANTOPEN THEN "unable to open database file"
         ELSE IF primary = SQLITE_MISUSE THEN "bad parameter or other API misuse"
         ELSE IF primary = 19 THEN "constraint failed"
         ELSE "unknown error"

\* Result<()> values
Ok == [ok |-> TRUE, code |-> 0, message |-> ""]
Err(c, m) == [ok |-> FALSE, code |-> c, message |-> m]

\* a mutation of NON_ERROR_CODES: "no more rows" taken for a success too
NON_ERROR_CODES_WithDone == {SQLITE_OK, SQLITE_ROW, SQLITE_DONE}

NON_ERROR_CODES == {SQLITE_OK, SQLITE_ROW}

error_to_result(c) ==
    IF c \in NON_ERROR_CODES
    THEN Ok
    ELSE Err(c, sqlite3_errstr(c))

----------------------------------------------------------------------------
(* Text.  A string is a sequence of characters; the literal pieces that    *)
(* format! inserts are kept as one token each.  "NUL" is the zero byte.    *)

Range(f) == {f[i] : i \in DOMAIN f}

\* CString::new(s): fails when s holds an interior zero byte
CString_new_ok(s) == "NUL" \notin Range(s)

\* the index of the first element of s from position i on that is in set,
\* or Len(s) + 1 when there is none
RECURSIVE FirstIn(_, _, _)
FirstIn(s, i, set) ==
    IF i > Len(s) THEN Len(s) + 1
    ELSE IF s[i] \in set THEN i
    ELSE FirstIn(s, i + 1, set)

\* the pieces of s between the separators "&"
RECURSIVE SplitAmp(_)
SplitAmp(s) ==
    LET k == FirstIn(s, 1, {"&"}) IN
    IF k > Len(s) THEN {s}
    ELSE {SubSeq(s, 1, k - 1)} \cup SplitAmp(SubSeq(s, k + 1, Len(s)))

\* The locations and names callers pass in: an ordinary name, a path below a
\* directory that does not exist, both with the characters a URI gives a
\* meaning to, and a name with a zero byte.  (The empty name is left out:
\* what the engine does with an empty URI path in memory mode is not fixed
\* by anything the source states.)
Locations ==
    { <<"a">>, <<"d">>,
      <<"a", "?">>, <<"a", "#">>, <<"d", "?">>,
      <<"a", "NUL">> }

\* the file system: nothing can be created below the directory "d"
FileOpenable(path) == path # <<>> /\ Head(path) # "d"

\* open_memory's format!("file:{}?mode=memory&cache=shared", uri)
in_memory_path(uri) ==
    <<"file:">> \o uri \o <<"?", "mode=memory", "&", "cache=shared">>

\* The engine's reading of a file name (URI file names are on in the bundled
\* build).  A name that starts with "file:" is a URI: the path ends at the
\* first "?" or "#", the query runs from the "?" to the first "#" and is a
\* list of key=value pairs separated by "&"; a pair the engine does not know
\* is ignored.  Any other name is a plain path.
sqlite3ParseUri(filename) ==
    IF filename # <<>> /\ Head(filename) = "file:"
    THEN LET rest  == Tail(filename)
             p     == FirstIn(rest, 1, {"?", "#"})
             qend  == FirstIn(rest, p + 1, {"#"})
             query == IF p <= Len(rest) /\ rest[p] = "?"
                      THEN SubSeq(rest, p + 1, qend - 1)
                      ELSE <<>>
             pairs == SplitAmp(query)
         IN  [path   |-> SubSeq(rest, 1, p - 1),
              memory |-> <<"mode=memory">> \in pairs,
              shared |-> <<"cache=shared">> \in pairs]
    ELSE [path |-> filename, memory |-> FALSE, shared |-> FALSE]

----------------------------------------------------------------------------
(* The engine's databases *)

Vals == {"x", "y"}

\* a database: the table t (whether it exists, and its rows as pairs of row
\* identifier and value) and the migrations' bookkeeping table
\* (mig: whether it exists; applied: the (domain, step) pairs recorded in
\* it).  done and again are history, kept with the database they are about:
\* the steps that ran to completion on it, and whether one did so twice;
\* and log, the values the passes of prepared INSERTs wrote, in order.
EmptyStore ==
    [t |-> FALSE, rows |-> {}, mig |-> FALSE, applied |-> {},
     done |-> {}, again |-> FALSE, log |-> <<>>]

NoKey == [kind |-> "none", path |-> <<>>, id |-> 0]

\* where an open lands: a named memory database shared by name, a file, or a
\* private database that lives and dies with the handle (an empty path, or a
\* memory database opened without the shared cache)
StoreKeyOf(parsed, h) ==
    IF parsed.memory /\ parsed.shared /\ parsed.path # <<>>
    THEN [kind |-> "mem", path |-> parsed.path, id |-> 0]
    ELSE IF parsed.memory \/ parsed.path = <<>>
    THEN [kind |-> "temp", path |-> <<>>, id |-> h]
    ELSE [kind |-> "disk", path |-> parsed.path, id |-> 0]

MaxId(rows) == IF rows = {} THEN 0 ELSE CHOOSE m \in {r[1] : r \in rows} : \A r \in rows : r[1] <= m

\* The SQL the model speaks: each statement is one piece of text, and a
\* query is a sequence of them (the text between the semicolons).  "NUL" is
\* a zero byte in the text.
Ins(v) == IF v = "x" THEN "INSERT x" ELSE "INSERT y"

Statements == {"CREATE", "DROP", "INSERT x", "INSERT y", "UPDATE y", "DELETE x", "BAD"}

\* the engine's parse of one statement; text it cannot parse is an error
Sql(text) ==
    CASE text = "CREATE"   -> [op |-> "create", val |-> "-"]
      [] text = "DROP"     -> [op |-> "drop", val |-> "-"]
      [] text = "INSERT x" -> [op |-> "insert", val |-> "x"]
      [] text = "INSERT y" -> [op |-> "insert", val |-> "y"]
      [] text = "UPDATE y" -> [op |-> "update", val |-> "y"]
      [] text = "DELETE x" -> [op |-> "delete", val |-> "x"]
      [] text = "CREATE TABLE IF NOT EXISTS migrations"
                           -> [op |-> "create_migrations", val |-> "-"]
      [] OTHER             -> [op |-> "bad", val |-> "-"]

\* one statement run on a database: whether it succeeded, the database
\* after it, and the row identifier it assigned (0 when it inserted nothing)
RunStmt(s, st) ==
    IF st.op = "create" /\ ~s.t
    THEN [ok |-> TRUE, s |-> [s EXCEPT !.t = TRUE], rowid |-> 0]
    ELSE IF st.op = "drop" /\ s.t
    THEN [ok |-> TRUE, s |-> [s EXCEPT !.t = FALSE, !.rows = {}, !.log = <<>>],
          rowid |-> 0]
    ELSE IF st.op = "insert" /\ s.t
    THEN LET id == MaxId(s.rows) + 1 IN
         [ok |-> TRUE, s |-> [s EXCEPT !.rows = @ \cup {<<id, st.val>>}], rowid |-> id]
    ELSE IF st.op = "update" /\ s.t
    THEN [ok |-> TRUE, s |-> [s EXCEPT !.rows = {<<r[1], st.val>> : r \in @}], rowid |-> 0]
    ELSE IF st.op = "create_migrations"
    THEN [ok |-> TRUE, s |-> [s EXCEPT !.mig = TRUE], rowid |-> 0]
    ELSE IF st.op = "delete" /\ s.t
    THEN [ok |-> TRUE, s |-> [s EXCEPT !.rows = {r \in @ : r[2] # st.val}], rowid |-> 0]
    ELSE [ok |-> FALSE, s |-> s, rowid |-> 0]

\* SELECT val FROM t WHERE rowid = id
SelectByRowid(s, id) == {r[2] : r \in {x \in s.rows : x[1] = id}}

----------------------------------------------------------------------------
(* The engine's handles.  E is the engine: its handles, its databases and   *)
(* the flag that records a call on a handle that was closed.               *)

\* F applied to the value v: names an intermediate result, like a let
\* binding of the code
Bind(v, F(_)) == F(v)

Engine == [handles |-> handles, stores |-> stores, misuse |-> misuse]

IsOpenOn(hs, key) == \E i \in DOMAIN hs : hs[i].state = "open" /\ hs[i].key = key

\* a call on handle h that is not the null pointer: using a closed one is recorded
Touch(E, h) ==
    IF h # 0 /\ E.handles[h].state = "closed" THEN [E EXCEPT !.misuse = TRUE] ELSE E

\* sqlite3_open_v2 with CREATE | NOMUTEX | READWRITE: a handle is allocated
\* whether or not the open succeeds; a failed open leaves a handle that only
\* reports the error and waits to be closed
sqlite3_open_v2(E, filename) ==
    Bind(StoreKeyOf(sqlite3ParseUri(filename), Len(E.handles) + 1), LAMBDA key :
    Bind(key.kind # "disk" \/ FileOpenable(key.path), LAMBDA good :
        [E |-> [E EXCEPT
                  !.handles = Append(@, [state    |-> IF good THEN "open" ELSE "failed",
                                         key      |-> IF good THEN key ELSE NoKey,
                                         errCode  |-> IF good THEN SQLITE_OK
                                                              ELSE SQLITE_CANTOPEN,
                                         rowid    |-> 0,
                                         extended |-> FALSE,
                                         closes   |-> 0]),
                  !.stores  = IF good /\ key \notin DOMAIN @
                              THEN [k \in DOMAIN @ \cup {key} |->
                                      IF k = key THEN EmptyStore ELSE @[k]]
                              ELSE @],
         h |-> Len(E.handles) + 1]))

sqlite3_extended_result_codes(E, h) ==
    IF h = 0 THEN E
    ELSE [Touch(E, h) EXCEPT !.handles[h].extended = TRUE]

\* sqlite3_errcode: the code of the handle's last call; out of memory for
\* the null pointer
sqlite3_errcode(E, h) == IF h = 0 THEN SQLITE_NOMEM ELSE E.handles[h].errCode

\* sqlite3_close: a no-op on the null pointer.  A memory or private database
\* goes away with its last handle; a file stays.
sqlite3_close(E, h) ==
    IF h = 0 THEN E
    ELSE Bind(Touch(E, h), LAMBDA T :
         Bind(T.handles[h].key, LAMBDA key :
         Bind([T.handles EXCEPT ![h].state = "closed", ![h].closes = @ + 1,
                                ![h].key = NoKey, ![h].errCode = SQLITE_OK,
                                ![h].rowid = 0], LAMBDA hs :
             [T EXCEPT !.handles = hs,
                       !.stores  = IF key \in DOMAIN @ /\ key.kind # "disk"
                                      /\ ~IsOpenOn(hs, key)
                                   THEN [k \in DOMAIN @ \ {key} |-> @[k]]
                                   ELSE @])))

\* a mutation of sqlite3_last_insert_rowid: the identifier is that of the last
\* row of the database, whichever handle inserted it
sqlite3_last_insert_rowid_OfDatabase(E, h) ==
    IF h = 0 \/ E.handles[h].key \notin DOMAIN E.stores THEN 0
    ELSE MaxId(E.stores[E.handles[h].key].rows)

\* sqlite3_last_insert_rowid
sqlite3_last_insert_rowid(E, h) == IF h = 0 THEN 0 ELSE E.handles[h].rowid

\* a mutation of RunAll: a statement that fails is stepped over and the rest
\* of the query still runs
RECURSIVE RunAll_KeepGoing(_, _, _)
RunAll_KeepGoing(s, rowid, q) ==
    IF q = <<>> THEN [rc |-> SQLITE_OK, s |-> s, rowid |-> rowid]
    ELSE Bind(RunStmt(s, Sql(Head(q))), LAMBDA r :
         IF ~r.ok
         THEN [RunAll_KeepGoing(s, rowid, Tail(q)) EXCEPT !.rc = SQLITE_ERROR]
         ELSE RunAll_KeepGoing(r.s, IF r.rowid # 0 THEN r.rowid ELSE rowid, Tail(q)))

\* the statements of a query run in order on database s until one fails:
\* the result code, the database and the handle's last row identifier after it
RECURSIVE RunAll(_, _, _)
RunAll(s, rowid, q) ==
    IF q = <<>> THEN [rc |-> SQLITE_OK, s |-> s, rowid |-> rowid]
    ELSE Bind(RunStmt(s, Sql(Head(q))), LAMBDA r :
         IF ~r.ok THEN [rc |-> SQLITE_ERROR, s |-> s, rowid |-> rowid]
         ELSE RunAll(r.s, IF r.rowid # 0 THEN r.rowid ELSE rowid, Tail(q)))

\* sqlite3_exec: clears the handle's error code, runs the statements, each
\* committed as it completes, and leaves the code of the first failure
sqlite3_exec(E, h, q) ==
    IF h = 0 \/ E.handles[h].state # "open"
    THEN [E |-> Touch(E, h), rc |-> SQLITE_MISUSE]
    ELSE Bind(E.handles[h].key, LAMBDA key :
         Bind(RunAll(E.stores[key], E.handles[h].rowid, q), LAMBDA x :
             [E  |-> [E EXCEPT !.handles[h].errCode = x.rc,
                               !.handles[h].rowid = x.rowid,
                               !.stores[key] = x.s],
              rc |-> x.rc]))

----------------------------------------------------------------------------
(* Connection *)

NoConn == [live |-> FALSE, sqlite3 |-> 0, persistent |-> FALSE]

\* the error CString::new gives for text with a zero byte in it
NulError == Err(-1, "nul byte found in provided data")

\* Connection::last_error
last_error(E, conn) == error_to_result(sqlite3_errcode(E, conn.sqlite3))

\* impl Drop for Connection
drop(E, conn) == sqlite3_close(E, conn.sqlite3)

\* a mutation of Connection::open: the failed handle is not closed on the
\* error return
open_Leaking(E, uri, persistent) ==
    IF ~CString_new_ok(uri)
    THEN [E |-> E, r |-> NulError, conn |-> NoConn]
    ELSE Bind(sqlite3_open_v2(E, uri), LAMBDA o :
         Bind([live |-> TRUE, sqlite3 |-> o.h, persistent |-> persistent], LAMBDA conn :
         Bind(sqlite3_extended_result_codes(o.E, o.h), LAMBDA E2 :
         Bind(last_error(E2, conn), LAMBDA r :
             IF r.ok
             THEN [E |-> E2, r |-> Ok, conn |-> conn]
             ELSE [E |-> E2, r |-> r, conn |-> NoConn]))))

\* Connection::open.  The Connection is built around a null handle first, so
\* every early return drops it: the null one when the text cannot be made a
\* C string, the failed handle when the engine reports an error.
open(E, uri, persistent) ==
    IF ~CString_new_ok(uri)
    THEN [E    |-> drop(E, [live |-> TRUE, sqlite3 |-> 0, persistent |-> persistent]),
          r    |-> NulError,
          conn |-> NoConn]
    ELSE Bind(sqlite3_open_v2(E, uri), LAMBDA o :
         Bind([live |-> TRUE, sqlite3 |-> o.h, persistent |-> persistent], LAMBDA conn :
         Bind(sqlite3_extended_result_codes(o.E, o.h), LAMBDA E2 :
         Bind(last_error(E2, conn), LAMBDA r :
             IF r.ok
             THEN [E |-> E2, r |-> Ok, conn |-> conn]
             ELSE [E |-> drop(E2, conn), r |-> r, conn |-> NoConn]))))

\* Connection::open_memory: expect() panics when the open fails
open_memory(E, uri) ==
    Bind(open(E, in_memory_path(uri), FALSE), LAMBDA o :
        [E |-> o.E, conn |-> o.conn, panic |-> ~o.r.ok])

\* a mutation of Connection::open_file: the connection of the fallback keeps
\* the flag of the file-backed attempt
open_file_KeepsFlag(E, uri) ==
    Bind(open(E, uri, TRUE), LAMBDA o :
        IF o.r.ok
        THEN [E |-> o.E, conn |-> o.conn, panic |-> FALSE]
        ELSE Bind(open_memory(o.E, uri), LAMBDA f :
             [E |-> f.E, panic |-> f.panic,
              conn |-> IF f.panic THEN f.conn ELSE [f.conn EXCEPT !.persistent = TRUE]]))

\* Connection::open_file
open_file(E, uri) ==
    Bind(open(E, uri, TRUE), LAMBDA o :
        IF o.r.ok
        THEN [E |-> o.E, conn |-> o.conn, panic |-> FALSE]
        ELSE open_memory(o.E, uri))

\* Connection::persistent
persistent(conn) == conn.persistent

\* Connection::last_insert_id
last_insert_id(E, conn) == sqlite3_last_insert_rowid(E, conn.sqlite3)

\* a mutation of Connection::exec: the handle's error is never read
exec_Unchecked(E, conn, q) ==
    IF ~CString_new_ok(q)
    THEN [E |-> E, r |-> NulError, rc |-> -1]
    ELSE Bind(sqlite3_exec(E, conn.sqlite3, q), LAMBDA x :
         [E |-> x.E, r |-> Ok, rc |-> x.rc])

\* a mutation of Connection::exec: the error is read before the call is made
exec_Stale(E, conn, q) ==
    IF ~CString_new_ok(q)
    THEN [E |-> E, r |-> NulError, rc |-> -1]
    ELSE Bind(sqlite3_exec(E, conn.sqlite3, q), LAMBDA x :
         [E |-> x.E, r |-> last_error(E, conn), rc |-> x.rc])

\* Connection::exec.  rc is what sqlite3_exec returned, which the code does
\* not look at (-1 when the engine was not called).
exec(E, conn, q) ==
    IF ~CString_new_ok(q)
    THEN [E |-> E, r |-> NulError, rc |-> -1]
    ELSE Bind(sqlite3_exec(E, conn.sqlite3, q), LAMBDA x :
         [E |-> x.E, r |-> last_error(x.E, conn), rc |-> x.rc])

\* a mutation of Connection::insert: the identifier is read before the exec
insert_ReadFirst(E, conn, q) ==
    Bind(exec(E, conn, q), LAMBDA x :
        [E |-> x.E, r |-> x.r, rc |-> x.rc,
         id |-> IF x.r.ok THEN last_insert_id(E, conn) ELSE 0])

\* Connection::insert
insert(E, conn, q) ==
    Bind(exec(E, conn, q), LAMBDA x :
        [E |-> x.E, r |-> x.r, rc |-> x.rc,
         id |-> IF x.r.ok THEN last_insert_id(x.E, conn) ELSE 0])

\* the engine's online backup, as backup_main drives it.  A backup object is
\* the pair of its handles; NoBackup is the null pointer sqlite3_backup_init
\* returns (leaving an error on the destination) when it refuses.
NoBackup == [dest |-> 0, src |-> 0]

sqlite3_backup_init(E, dh, sh) ==
    IF dh = sh
    THEN [E |-> [E EXCEPT !.handles[dh].errCode = SQLITE_ERROR], backup |-> NoBackup]
    ELSE [E |-> E, backup |-> [dest |-> dh, src |-> sh]]

\* sqlite3_backup_step(backup, -1): every page of the source is copied over
\* the destination.  On the null pointer the call is refused (the bundled
\* build checks its arguments).  When both handles are on one database the
\* destination cannot be locked for writing while the source is read.
sqlite3_backup_step(E, b) ==
    IF b = NoBackup THEN [E |-> E, rc |-> SQLITE_MISUSE]
    ELSE Bind(E.handles[b.dest].key, LAMBDA dk :
         Bind(E.handles[b.src].key, LAMBDA sk :
             IF dk = sk
             THEN [E |-> E, rc |-> IF dk.kind = "mem" THEN SQLITE_LOCKED_SHAREDCACHE
                                                    ELSE SQLITE_BUSY]
             ELSE [E |-> [E EXCEPT !.stores[dk] = E.stores[sk]], rc |-> SQLITE_DONE]))

\* sqlite3_backup_finish: releases the backup and leaves its outcome as the
\* destination's error code; nothing to do on the null pointer
sqlite3_backup_finish(E, b, rc) ==
    IF b = NoBackup THEN E
    ELSE [E EXCEPT !.handles[b.dest].errCode = IF rc = SQLITE_DONE THEN SQLITE_OK ELSE rc]

\* a mutation of Connection::backup_main: the handles are passed to
\* sqlite3_backup_init in the wrong order
backup_main_Swapped(E, self, destination) ==
    Bind(sqlite3_backup_init(E, self.sqlite3, destination.sqlite3), LAMBDA i :
    Bind(sqlite3_backup_step(i.E, i.backup), LAMBDA st :
    Bind(sqlite3_backup_finish(st.E, i.backup, st.rc), LAMBDA E3 :
        [E |-> E3, r |-> last_error(E3, destination), rc |-> st.rc,
         null |-> i.backup = NoBackup])))

\* a mutation of Connection::backup_main: the copy step is left out
backup_main_NoStep(E, self, destination) ==
    Bind(sqlite3_backup_init(E, destination.sqlite3, self.sqlite3), LAMBDA i :
    Bind(sqlite3_backup_finish(i.E, i.backup, SQLITE_DONE), LAMBDA E3 :
        [E |-> E3, r |-> last_error(E3, destination), rc |-> SQLITE_DONE,
         null |-> i.backup = NoBackup]))

\* Connection::backup_main.  What sqlite3_backup_init returned is not looked
\* at: the step and the finish are called with it whatever it is.  rc is
\* what sqlite3_backup_step returned, null whether the two calls were made
\* with the null pointer.
backup_main(E, self, destination) ==
    Bind(sqlite3_backup_init(E, destination.sqlite3, self.sqlite3), LAMBDA i :
    Bind(sqlite3_backup_step(i.E, i.backup), LAMBDA st :
    Bind(sqlite3_backup_finish(st.E, i.backup, st.rc), LAMBDA E3 :
        [E |-> E3, r |-> last_error(E3, destination), rc |-> st.rc,
         null |-> i.backup = NoBackup])))

----------------------------------------------------------------------------
(* Migration *)

\* the Migration objects of the model: a domain and its ordered steps
Migrations ==
    { [domain |-> "kv", steps |-> << <<"CREATE">>, <<"INSERT x">> >>],
      [domain |-> "b",  steps |-> << <<"INSERT y">>, <<"DROP">>, <<"DROP">> >>] }

Recorded(s, domain) == {p[2] : p \in {a \in s.applied : a[1] = domain}}

\* the database conn's handle is on
StoreOf(E, conn) == E.stores[E.handles[conn.sqlite3].key]

\* the INSERT INTO migrations that records step i of a domain as applied
RecordStep(E, conn, domain, i) ==
    [E EXCEPT !.stores[E.handles[conn.sqlite3].key].applied = @ \cup {<<domain, i>>}]

\* history: the engine ran step i of a domain to completion on conn's
\* database
NoteDone(E, conn, domain, i) ==
    [E EXCEPT !.stores[E.handles[conn.sqlite3].key].again =
                  @ \/ <<domain, i>> \in StoreOf(E, conn).done,
              !.stores[E.handles[conn.sqlite3].key].done = @ \cup {<<domain, i>>}]

\* the steps of m from index i on (steps are numbered from 0): a step that is
\* recorded is skipped; any other is executed and, when it completes,
\* recorded; the first failure ends the run.  tried: the steps handed to
\* exec, in order.
RECURSIVE RunSteps(_, _, _, _, _)
RunSteps(E, conn, m, i, tried) ==
    IF i >= Len(m.steps) THEN [E |-> E, r |-> Ok, tried |-> tried]
    ELSE IF i \in Recorded(StoreOf(E, conn), m.domain)
    THEN RunSteps(E, conn, m, i + 1, tried)
    ELSE Bind(exec(E, conn, m.steps[i + 1]), LAMBDA x :
         Bind(IF x.rc = SQLITE_OK THEN NoteDone(x.E, conn, m.domain, i) ELSE x.E,
              LAMBDA E1 :
             IF ~x.r.ok THEN [E |-> E1, r |-> x.r, tried |-> Append(tried, i)]
             ELSE RunSteps(RecordStep(E1, conn, m.domain, i),
                           conn, m, i + 1, Append(tried, i))))

\* Migration::run
Migration_run(E, conn, m) ==
    Bind(exec(E, conn, <<"CREATE TABLE IF NOT EXISTS migrations">>), LAMBDA x :
        IF ~x.r.ok THEN [E |-> x.E, r |-> x.r, tried |-> <<>>]
        ELSE RunSteps(x.E, conn, m, 0, <<>>))

\* Statement: prepare one INSERT, bind its value and exec it (step it until
\* it is done)
Statement_exec(E, conn, text) ==
    IF ~CString_new_ok(<<text>>)
    THEN [E |-> E, r |-> NulError]
    ELSE Bind(sqlite3_exec(E, conn.sqlite3, <<text>>), LAMBDA x :
         [E |-> x.E, r |-> error_to_result(x.rc)])

----------------------------------------------------------------------------
(* The Binding Protocol: values of the caller, values of the engine *)

\* a value of the caller: text (a sequence of characters), an integer or a
\* blob (a sequence of bytes); a tuple is a sequence of them
RText(chars) == [shape |-> "text", chars |-> chars, n |-> 0, bytes |-> <<>>]
RInt(n) == [shape |-> "int", chars |-> <<>>, n |-> n, bytes |-> <<>>]
RBlob(bytes) == [shape |-> "blob", chars |-> <<>>, n |-> 0, bytes |-> bytes]

\* a value of the engine, in a parameter slot or a column
Null == [kind |-> "null", i |-> 0, bytes |-> <<>>]
EInteger(i) == [kind |-> "integer", i |-> i, bytes |-> <<>>]
EText(bytes) == [kind |-> "text", i |-> 0, bytes |-> bytes]
EBlob(bytes) == [kind |-> "blob", i |-> 0, bytes |-> bytes]

\* UTF-8: the characters of the model are t (one byte), E (e with an acute
\* accent, two bytes) and Z (U+0000, the zero byte)
Utf8Char(ch) ==
    CASE ch = "t" -> <<116>>
      [] ch = "E" -> <<195, 169>>
      [] ch = "Z" -> <<0>>

RECURSIVE Utf8(_)
Utf8(chars) == IF chars = <<>> THEN <<>> ELSE Utf8Char(Head(chars)) \o Utf8(Tail(chars))

\* the characters a byte sequence encodes; ok is FALSE when it is not UTF-8
\* of the model's characters
RECURSIVE FromUtf8(_)
FromUtf8(bytes) ==
    IF bytes = <<>> THEN [ok |-> TRUE, chars |-> <<>>]
    ELSE IF Head(bytes) = 116 THEN
        Bind(FromUtf8(Tail(bytes)), LAMBDA rest :
            [ok |-> rest.ok, chars |-> <<"t">> \o rest.chars])
    ELSE IF Head(bytes) = 0 THEN
        Bind(FromUtf8(Tail(bytes)), LAMBDA rest :
            [ok |-> rest.ok, chars |-> <<"Z">> \o rest.chars])
    ELSE IF Head(bytes) = 195 /\ Len(bytes) >= 2 /\ bytes[2] = 169 THEN
        Bind(FromUtf8(Tail(Tail(bytes))), LAMBDA rest :
            [ok |-> rest.ok, chars |-> <<"E">> \o rest.chars])
    ELSE [ok |-> FALSE, chars |-> <<>>]

\* Bind of one value: what is written into the parameter slot
Encode(v) ==
    CASE v.shape = "text" -> EText(Utf8(v.chars))
      [] v.shape = "int"  -> EInteger(v.n)
      [] v.shape = "blob" -> EBlob(v.bytes)

\* the result code of a bind to a slot the statement does not have
SQLITE_RANGE == 25
\* the result code this layer gives a column that cannot be decoded as asked
DecodingFailure == -2
\* and a single-row fetch that found no row
NoRowsFailure == -3

\* a mutation of bind: a slot that holds a value keeps it
RECURSIVE bind_KeepBound(_, _, _)
bind_KeepBound(slots, value, index) ==
    IF value = <<>> THEN [rc |-> SQLITE_OK, slots |-> slots]
    ELSE IF index > Len(slots) THEN [rc |-> SQLITE_RANGE, slots |-> slots]
    ELSE bind_KeepBound(IF slots[index] = Null
                        THEN [slots EXCEPT ![index] = Encode(Head(value))]
                        ELSE slots,
                        Tail(value), index + 1)

\* Bind of a tuple: its elements go to consecutive slots from index on; the
\* first bind the engine refuses ends it, the slots bound before it stay bound
RECURSIVE bind(_, _, _)
bind(slots, value, index) ==
    IF value = <<>> THEN [rc |-> SQLITE_OK, slots |-> slots]
    ELSE IF index > Len(slots) THEN [rc |-> SQLITE_RANGE, slots |-> slots]
    ELSE bind([slots EXCEPT ![index] = Encode(Head(value))], Tail(value), index + 1)

\* the types a column is decoded as
ColumnTypes == {"String", "i64", "Vec<u8>"}

\* the bytes up to the first zero byte
RECURSIVE UpToZero(_)
UpToZero(bytes) ==
    IF bytes = <<>> \/ Head(bytes) = 0 THEN <<>>
    ELSE <<Head(bytes)>> \o UpToZero(Tail(bytes))

\* a mutation of column: text is read as a C string, up to its first zero byte
column_CStr(e, type) ==
    IF type = "String" /\ e.kind = "text"
    THEN Bind(FromUtf8(UpToZero(e.bytes)), LAMBDA d : [ok |-> d.ok, v |-> RText(d.chars)])
    ELSE IF type = "i64" /\ e.kind = "integer" THEN [ok |-> TRUE, v |-> RInt(e.i)]
    ELSE IF type = "Vec<u8>" /\ e.kind = "blob" THEN [ok |-> TRUE, v |-> RBlob(e.bytes)]
    ELSE [ok |-> FALSE, v |-> RInt(0)]

\* Column of one value: a stored value of another kind than the type asked
\* for is a type mismatch
column(e, type) ==
    IF type = "String" /\ e.kind = "text"
    THEN Bind(FromUtf8(e.bytes), LAMBDA d : [ok |-> d.ok, v |-> RText(d.chars)])
    ELSE IF type = "i64" /\ e.kind = "integer" THEN [ok |-> TRUE, v |-> RInt(e.i)]
    ELSE IF type = "Vec<u8>" /\ e.kind = "blob" THEN [ok |-> TRUE, v |-> RBlob(e.bytes)]
    ELSE [ok |-> FALSE, v |-> RInt(0)]

\* Column of a tuple: consecutive columns of the row from index on, each as
\* its type; a column the row does not have is an error
RECURSIVE columns(_, _, _)
columns(row, types, index) ==
    IF types = <<>> THEN [ok |-> TRUE, v |-> <<>>]
    ELSE IF index > Len(row) THEN [ok |-> FALSE, v |-> <<>>]
    ELSE Bind(column(row[index], Head(types)), LAMBDA c :
         IF ~c.ok THEN [ok |-> FALSE, v |-> <<>>]
         ELSE Bind(columns(row, Tail(types), index + 1), LAMBDA rest :
              [ok |-> rest.ok, v |-> IF rest.ok THEN <<c.v>> \o rest.v ELSE <<>>]))

----------------------------------------------------------------------------
(* Statement *)

\* the table of the model has three columns: text, integer, blob
TableColumns == 3

\* the statements that are prepared: INSERT INTO t (text, integer, blob)
\* VALUES (?, ?, ?), INSERT INTO t (text) VALUES (?), SELECT * FROM t and
\* SELECT text FROM t
StatementSql(text) ==
    CASE text = "INSERT ?,?,?" -> [op |-> "insert", params |-> 3, cols |-> 3]
      [] text = "INSERT ?"     -> [op |-> "insert", params |-> 1, cols |-> 1]
      [] text = "SELECT *"     -> [op |-> "select", params |-> 0, cols |-> 3]
      [] text = "SELECT text"  -> [op |-> "select", params |-> 0, cols |-> 1]
      [] OTHER                 -> [op |-> "bad", params |-> 0, cols |-> 0]

\* a Statement: the connection it borrows (conn: the variable, sqlite3: the
\* handle reached through it), its SQL and its parameter slots
NoStatement ==
    [live |-> FALSE, conn |-> "-", sqlite3 |-> 0, sql |-> "", slots |-> <<>>]

\* the handle's error code set to rc
SetErr(E, h, rc) == [E EXCEPT !.handles[h].errCode = rc]

\* Statement::prepare: the text is compiled against the connection's database;
\* text the engine cannot compile, or a table that is not there, is an error
Statement_prepare(E, c, conn, text) ==
    IF ~CString_new_ok(<<text>>)
    THEN [E |-> E, r |-> NulError, stmt |-> NoStatement]
    ELSE IF E.handles[conn.sqlite3].state # "open"
    THEN [E |-> Touch(E, conn.sqlite3), r |-> error_to_result(SQLITE_MISUSE),
          stmt |-> NoStatement]
    ELSE IF StatementSql(text).op = "bad" \/ ~E.stores[E.handles[conn.sqlite3].key].t
    THEN [E |-> SetErr(E, conn.sqlite3, SQLITE_ERROR),
          r |-> error_to_result(SQLITE_ERROR), stmt |-> NoStatement]
    ELSE [E |-> SetErr(E, conn.sqlite3, SQLITE_OK), r |-> Ok,
          stmt |-> [live |-> TRUE, conn |-> c, sqlite3 |-> conn.sqlite3, sql |-> text,
                    slots |-> [i \in 1 .. StatementSql(text).params |-> Null]]]

\* Statement::with_bindings: the whole value is bound from slot 1 on
Statement_with_bindings(E, stmt, value) ==
    IF E.handles[stmt.sqlite3].state # "open"
    THEN [E |-> Touch(E, stmt.sqlite3), r |-> error_to_result(SQLITE_MISUSE),
          stmt |-> stmt]
    ELSE Bind(bind(stmt.slots, value, 1), LAMBDA b :
         [E |-> SetErr(E, stmt.sqlite3, b.rc), r |-> error_to_result(b.rc),
          stmt |-> [stmt EXCEPT !.slots = b.slots]])

\* the row an INSERT writes: the slots in the columns it names, the other
\* columns null
RowOf(stmt) ==
    [i \in 1 .. TableColumns |-> IF i <= Len(stmt.slots) THEN stmt.slots[i] ELSE Null]

\* a mutation of InRowidOrder: the last row first
RECURSIVE InRowidOrder_Backwards(_)
InRowidOrder_Backwards(rows) ==
    IF rows = {} THEN <<>>
    ELSE Bind(CHOOSE r \in rows : \A o \in rows : r[1] >= o[1], LAMBDA last :
         <<last[2]>> \o InRowidOrder_Backwards(rows \ {last}))

\* the rows of a table in the order a SELECT with no ORDER BY emits them: by
\* row identifier
RECURSIVE InRowidOrder(_)
InRowidOrder(rows) ==
    IF rows = {} THEN <<>>
    ELSE Bind(CHOOSE r \in rows : \A o \in rows : r[1] <= o[1], LAMBDA first :
         <<first[2]>> \o InRowidOrder(rows \ {first}))

\* the rows a SELECT emits: the columns it names of every row of the table
Emitted(s, stmt) ==
    [i \in 1 .. Cardinality(s.rows) |->
        SubSeq(InRowidOrder(s.rows)[i], 1, StatementSql(stmt.sql).cols)]

\* one execution pass of an INSERT: the step that inserts the row, and the
\* reset after it.  The slots keep what was bound.  value is what the pass
\* had bound, kept in the database's log of writes.
InsertPass(E, stmt, value) ==
    Bind(E.handles[stmt.sqlite3].key, LAMBDA key :
        IF ~E.stores[key].t
        THEN [E |-> SetErr(E, stmt.sqlite3, SQLITE_ERROR), rc |-> SQLITE_ERROR]
        ELSE Bind(MaxId(E.stores[key].rows) + 1, LAMBDA id :
             [E  |-> [E EXCEPT !.stores[key].rows = @ \cup {<<id, RowOf(stmt)>>},
                               !.stores[key].log = Append(@, value),
                               !.handles[stmt.sqlite3].rowid = id,
                               !.handles[stmt.sqlite3].errCode = SQLITE_OK],
              rc |-> SQLITE_DONE]))

\* Statement::exec: steps until Done, the rows are discarded; then the reset
Statement_exec_pass(E, stmt, value) ==
    IF E.handles[stmt.sqlite3].state # "open"
    THEN [E |-> Touch(E, stmt.sqlite3), r |-> error_to_result(SQLITE_MISUSE)]
    ELSE IF StatementSql(stmt.sql).op = "insert"
    THEN Bind(InsertPass(E, stmt, value), LAMBDA x :
         [E |-> x.E, r |-> IF x.rc = SQLITE_DONE THEN Ok ELSE error_to_result(x.rc)])
    ELSE IF ~E.stores[E.handles[stmt.sqlite3].key].t
    THEN [E |-> SetErr(E, stmt.sqlite3, SQLITE_ERROR), r |-> error_to_result(SQLITE_ERROR)]
    ELSE [E |-> SetErr(E, stmt.sqlite3, SQLITE_OK), r |-> Ok]

\* the rows a pass of the statement emits, an INSERT's pass having inserted
\* its row: none for an INSERT
PassRows(E, stmt) ==
    IF StatementSql(stmt.sql).op = "insert" THEN <<>>
    ELSE Emitted(E.stores[E.handles[stmt.sqlite3].key], stmt)

\* each row decoded as the types, up to the first that cannot be
RECURSIVE DecodeAll(_, _)
DecodeAll(rows, types) ==
    IF rows = <<>> THEN [ok |-> TRUE, v |-> <<>>]
    ELSE Bind(columns(Head(rows), types, 1), LAMBDA d :
         IF ~d.ok THEN [ok |-> FALSE, v |-> <<>>]
         ELSE Bind(DecodeAll(Tail(rows), types), LAMBDA rest :
              [ok |-> rest.ok, v |-> IF rest.ok THEN <<d.v>> \o rest.v ELSE <<>>]))

\* Statement::rows::<T>: steps until Done, every row decoded as T, in the
\* order the engine emitted them; then the reset
Statement_rows(E, stmt, types) ==
    IF E.handles[stmt.sqlite3].state # "open"
    THEN [E |-> Touch(E, stmt.sqlite3), r |-> error_to_result(SQLITE_MISUSE), v |-> <<>>]
    ELSE Bind(Statement_exec_pass(E, stmt, <<>>), LAMBDA x :
         IF ~x.r.ok THEN [E |-> x.E, r |-> x.r, v |-> <<>>]
         ELSE Bind(DecodeAll(PassRows(E, stmt), types), LAMBDA d :
              [E |-> x.E, v |-> d.v,
               r |-> IF d.ok THEN Ok ELSE Err(DecodingFailure, "type mismatch")]))

\* Statement::row::<T>: one step, which must give a row, decoded as T; then
\* the reset
Statement_row(E, stmt, types) ==
    IF E.handles[stmt.sqlite3].state # "open"
    THEN [E |-> Touch(E, stmt.sqlite3), r |-> error_to_result(SQLITE_MISUSE), v |-> <<>>]
    ELSE Bind(Statement_exec_pass(E, stmt, <<>>), LAMBDA x :
         IF ~x.r.ok THEN [E |-> x.E, r |-> x.r, v |-> <<>>]
         ELSE IF PassRows(E, stmt) = <<>>
         THEN [E |-> x.E, r |-> Err(NoRowsFailure, "no rows"), v |-> <<>>]
         ELSE Bind(columns(Head(PassRows(E, stmt)), types, 1), LAMBDA d :
              [E |-> x.E, v |-> d.v,
               r |-> IF d.ok THEN Ok ELSE Err(DecodingFailure, "type mismatch")]))

\* impl Drop for Statement: sqlite3_finalize
Statement_drop(E, stmt) == Touch(E, stmt.sqlite3)

----------------------------------------------------------------------------
(* The state machine *)

ConnIds == {"c1", "c2"}

\* the variables that hold Statements
StmtIds == {"s1", "s2"}

\* fallback: the file-backed attempt of open_file had failed
NoOrigin == [by |-> "none", name |-> <<>>, fallback |-> FALSE]

NoResult ==
    [op |-> "none", c |-> "-", d |-> "-", r |-> Ok, panic |-> FALSE, id |-> 0,
     rc |-> 0, arg |-> <<>>, fileFailed |-> FALSE, tried |-> <<>>,
     before |-> 0, gone |-> 0, null |-> FALSE, position |-> <<0, 0>>, point |-> 0,
     s |-> "-", types |-> <<>>, value |-> <<>>, t |-> "-"]

\* the threads of the program
Threads == {"t1", "t2"}

\* a thread that is inside no call
NoCall == [op |-> "none", c |-> "-", d |-> "-", s |-> "-"]

\* every Connection variable starts on the first thread, every thread idle
IdleThreads == [owner |-> [c \in ConnIds |-> "t1"], at |-> [t \in Threads |-> NoCall]]

InitCommon ==
    /\ conns = [c \in ConnIds |-> NoConn]
    /\ origin = [c \in ConnIds |-> NoOrigin]
    /\ handles = <<>>
    /\ stores = <<>>
    /\ result = NoResult
    /\ misuse = FALSE
    /\ converted = Ok
    /\ stmts = [s \in StmtIds |-> NoStatement]
    /\ threads = IdleThreads

\* an editor's selections without a pending one
NoSelection == [start |-> -1, end |-> -1, mode |-> "none"]

\* the editor of the specifications that do not use one
IdleEditor ==
    [mode |-> "Full", project |-> FALSE,
     selections |-> [disjoint |-> {[start |-> 0, end |-> 0]}, pending |-> NoSelection],
     mouse_context_menu |-> [visible |-> FALSE, position |-> <<0, 0>>, items |-> <<>>],
     notified |-> FALSE]

Init == InitCommon /\ code = 0 /\ editor = IdleEditor

SetEngine(E) ==
    /\ handles' = E.handles
    /\ stores' = E.stores
    /\ misuse' = E.misuse

\* the bounds of the model: handles handed out, and row identifiers in use
Fits(E) ==
    /\ Len(E.handles) <= MaxHandles
    /\ \A k \in DOMAIN E.stores : \A r \in E.stores[k].rows : r[1] <= MaxRowid

Live(c) == conns[c].live

KeyOf(c) == handles[conns[c].sqlite3].key

\* let c = Connection::open_file(loc)
OpenFile(c, loc) ==
    /\ ~Live(c)
    /\ \E o \in {open_file(Engine, loc)} :
       /\ Fits(o.E)
       /\ SetEngine(o.E)
       /\ conns' = [conns EXCEPT ![c] = o.conn]
       /\ origin' = [origin EXCEPT ![c] = IF o.panic THEN NoOrigin
                                          ELSE [by |-> "open_file", name |-> loc,
                                                fallback |-> ~open(Engine, loc, TRUE).r.ok]]
       /\ result' = [NoResult EXCEPT !.op = "open_file", !.c = c, !.arg = loc,
                                     !.panic = o.panic,
                                     !.fileFailed = ~open(Engine, loc, TRUE).r.ok]
    /\ UNCHANGED <<code, converted, editor, stmts, threads>>

\* let c = Connection::open_memory(name)
OpenMemory(c, name) ==
    /\ ~Live(c)
    /\ \E o \in {open_memory(Engine, name)} :
       /\ Fits(o.E)
       /\ SetEngine(o.E)
       /\ conns' = [conns EXCEPT ![c] = o.conn]
       /\ origin' = [origin EXCEPT ![c] = IF o.panic THEN NoOrigin
                                          ELSE [by |-> "open_memory", name |-> name,
                                                fallback |-> FALSE]]
       /\ result' = [NoResult EXCEPT !.op = "open_memory", !.c = c, !.arg = name,
                                     !.panic = o.panic]
    /\ UNCHANGED <<code, converted, editor, stmts, threads>>

\* a mutation of Borrowed: a Statement holds no borrow of its Connection
Borrowed_Never(c) == FALSE

\* a live Statement borrows c: the Connection can be neither moved nor dropped
Borrowed(c) == \E s \in StmtIds : stmts[s].live /\ stmts[s].conn = c

\* c goes out of scope
Drop(c) ==
    /\ Live(c)
    /\ ~Borrowed(c)
    /\ SetEngine(drop(Engine, conns[c]))
    /\ conns' = [conns EXCEPT ![c] = NoConn]
    /\ origin' = [origin EXCEPT ![c] = NoOrigin]
    /\ result' = [NoResult EXCEPT !.op = "drop", !.c = c]
    /\ UNCHANGED <<code, converted, editor, stmts, threads>>

\* c.exec(q)
Exec(c, q) ==
    /\ Live(c)
    /\ \E x \in {exec(Engine, conns[c], q)} :
       /\ Fits(x.E)
       /\ SetEngine(x.E)
       /\ result' = [NoResult EXCEPT !.op = "exec", !.c = c, !.arg = q,
                                     !.r = x.r, !.rc = x.rc,
                                     !.before = sqlite3_errcode(Engine, conns[c].sqlite3)]
    /\ UNCHANGED <<conns, origin, code, converted, editor, stmts, threads>>

\* c.insert(q)
Insert(c, q) ==
    /\ Live(c)
    /\ \E x \in {insert(Engine, conns[c], q)} :
       /\ Fits(x.E)
       /\ SetEngine(x.E)
       /\ result' = [NoResult EXCEPT !.op = "insert", !.c = c, !.arg = q,
                                     !.r = x.r, !.rc = x.rc, !.id = x.id]
    /\ UNCHANGED <<conns, origin, code, converted, editor, stmts, threads>>

\* c.prepare("INSERT ... VALUES (?)")?.with_bindings(v)?.exec() followed by
\* c.last_insert_id(), as test_kv_store does
PreparedInsert(c, v) ==
    /\ Live(c)
    /\ \E x \in {Statement_exec(Engine, conns[c], Ins(v))} :
       /\ Fits(x.E)
       /\ SetEngine(x.E)
       /\ result' = [NoResult EXCEPT !.op = "prepared_insert", !.c = c,
                                     !.arg = <<Ins(v)>>, !.r = x.r,
                                     !.id = last_insert_id(x.E, conns[c])]
    /\ UNCHANGED <<conns, origin, code, converted, editor, stmts, threads>>

\* c.backup_main(&d)
BackupMain(c, d) ==
    /\ Live(c) /\ Live(d)
    /\ \E x \in {backup_main(Engine, conns[c], conns[d])} :
       /\ SetEngine(x.E)
       /\ result' = [NoResult EXCEPT !.op = "backup_main", !.c = c, !.d = d, !.r = x.r,
                        !.rc = x.rc, !.null = x.null,
                        !.gone = Cardinality(stores[KeyOf(d)].rows \ stores[KeyOf(c)].rows)]
    /\ UNCHANGED <<conns, origin, code, converted, editor, stmts, threads>>

\* let s = c.prepare(text)
Prepare(s, c, text) ==
    /\ Live(c)
    /\ ~stmts[s].live
    /\ \E x \in {Statement_prepare(Engine, c, conns[c], text)} :
       /\ SetEngine(x.E)
       /\ stmts' = [stmts EXCEPT ![s] = x.stmt]
       /\ result' = [NoResult EXCEPT !.op = "prepare", !.c = c, !.s = s,
                                     !.arg = <<text>>, !.r = x.r]
    /\ UNCHANGED <<conns, origin, code, converted, editor, threads>>

\* s.with_bindings(value)?.exec(): the exec is not reached when the binding
\* fails
with_bindings_exec(E, stmt, value) ==
    Bind(Statement_with_bindings(E, stmt, value), LAMBDA b :
        IF ~b.r.ok THEN [E |-> b.E, r |-> b.r, stmt |-> b.stmt, ran |-> FALSE]
        ELSE Bind(Statement_exec_pass(b.E, b.stmt, value), LAMBDA x :
             [E |-> x.E, r |-> x.r, stmt |-> b.stmt, ran |-> TRUE]))

BindExec(s, value) ==
    /\ stmts[s].live
    /\ \E x \in {with_bindings_exec(Engine, stmts[s], value)} :
       /\ Fits(x.E)
       /\ SetEngine(x.E)
       /\ stmts' = [stmts EXCEPT ![s] = x.stmt]
       /\ result' = [NoResult EXCEPT !.op = "bind_exec", !.c = stmts[s].conn, !.s = s,
                                     !.arg = value, !.r = x.r]
    /\ UNCHANGED <<conns, origin, code, converted, editor, threads>>

\* s.rows::<T>()
Rows(s, types) ==
    /\ stmts[s].live
    /\ \E x \in {Statement_rows(Engine, stmts[s], types)} :
       /\ Fits(x.E)
       /\ SetEngine(x.E)
       /\ result' = [NoResult EXCEPT !.op = "rows", !.c = stmts[s].conn, !.s = s,
                                     !.types = types, !.r = x.r, !.value = x.v]
    /\ UNCHANGED <<conns, origin, code, converted, editor, stmts, threads>>

\* s.row::<T>()
Row(s, types) ==
    /\ stmts[s].live
    /\ \E x \in {Statement_row(Engine, stmts[s], types)} :
       /\ Fits(x.E)
       /\ SetEngine(x.E)
       /\ result' = [NoResult EXCEPT !.op = "row", !.c = stmts[s].conn, !.s = s,
                                     !.types = types, !.r = x.r, !.value = x.v]
    /\ UNCHANGED <<conns, origin, code, converted, editor, stmts, threads>>

\* s goes out of scope
Finalize(s) ==
    /\ stmts[s].live
    /\ SetEngine(Statement_drop(Engine, stmts[s]))
    /\ stmts' = [stmts EXCEPT ![s] = NoStatement]
    /\ result' = [NoResult EXCEPT !.op = "finalize", !.c = stmts[s].conn, !.s = s]
    /\ UNCHANGED <<conns, origin, code, converted, editor, threads>>

\* m.run(&c)
MigrationRun(c, m) ==
    /\ Live(c)
    /\ \E x \in {Migration_run(Engine, conns[c], m)} :
       /\ Fits(x.E)
       /\ SetEngine(x.E)
       /\ result' = [NoResult EXCEPT !.op = "migrate", !.c = c, !.d = m.domain,
                                     !.r = x.r, !.tried = x.tried]
    /\ UNCHANGED <<conns, origin, code, converted, editor, stmts, threads>>

\* Connections opened and dropped at every location, with a first statement
\* run on them
LifeQueries == {<<"CREATE">>, <<"BAD">>}

Next ==
    \/ \E c \in ConnIds, loc \in Locations : OpenFile(c, loc)
    \/ \E c \in ConnIds, name \in Locations : OpenMemory(c, name)
    \/ \E c \in ConnIds : Drop(c)
    \/ \E c \in ConnIds, q \in LifeQueries : Exec(c, q)
    \/ \E c \in ConnIds : Insert(c, <<"BAD">>)
    \/ \E c, d \in ConnIds : BackupMain(c, d)

Spec == Init /\ [][Next]_vars

\* Statements run through exec, insert and a prepared INSERT on two
\* connections to one named memory database
DataNames == {<<"a">>}

ExecQueries ==
    { <<"CREATE">>, <<"DELETE x">>, <<"BAD">>, <<"NUL">>, <<"CREATE", "INSERT x">>,
      <<"CREATE", "CREATE", "INSERT x">>, <<"INSERT y", "BAD", "INSERT x">> }

InsertQueries ==
    { <<"INSERT x">>, <<"INSERT y">>, <<"INSERT x", "BAD">>,
      <<"INSERT x", "INSERT y">>, <<"INSERT y", "DELETE x">>, <<"DELETE x">> }

NextData ==
    \/ \E c \in ConnIds, name \in DataNames : OpenMemory(c, name)
    \/ \E c \in ConnIds : Drop(c)
    \/ \E c \in ConnIds, q \in ExecQueries : Exec(c, q)
    \/ \E c \in ConnIds, q \in InsertQueries : Insert(c, q)
    \/ \E c \in ConnIds, v \in Vals : PreparedInsert(c, v)

SpecData == Init /\ [][NextData]_vars

\* Backups between connections to two named memory databases
BackupNames == {<<"a">>, <<"b">>}

BackupQueries == {<<"CREATE">>, <<"INSERT x">>, <<"DELETE x">>, <<"UPDATE y">>}

NextBackup ==
    \/ \E c \in ConnIds, name \in BackupNames : OpenMemory(c, name)
    \/ \E c \in ConnIds : Drop(c)
    \/ \E c \in ConnIds, q \in BackupQueries : Exec(c, q)
    \/ \E c, d \in ConnIds : BackupMain(c, d)

SpecBackup == Init /\ [][NextBackup]_vars

\* Migrations run against connections, between statements that change the
\* schema under them
MigrationQueries == {<<"CREATE">>, <<"DROP">>}

NextMigration ==
    \/ \E c \in ConnIds, name \in BackupNames : OpenMemory(c, name)
    \/ \E c \in ConnIds : Drop(c)
    \/ \E c \in ConnIds, q \in MigrationQueries : Exec(c, q)
    \/ \E c \in ConnIds, m \in Migrations : MigrationRun(c, m)

SpecMigration == Init /\ [][NextMigration]_vars

\* Statements prepared, bound, executed and read on connections to one named
\* memory database.  The values bound: two (text, integer, blob) tuples, the
\* text of the second with a zero byte in it, and a lone text.
BindValues ==
    { <<RText(<<"t", "E">>), RInt(64), RBlob(<<0, 1, 64>>)>>,
      <<RText(<<"E", "Z", "t">>), RInt(-32), RBlob(<<64, 1, 0>>)>>,
      <<RText(<<"E">>)>> }

Tuple3 == <<"String", "i64", "Vec<u8>">>

RowTypes == {Tuple3, <<"String">>, <<"Vec<u8>">>}

\* s1 holds the INSERT, s2 the SELECTs
TextsOf(s) == IF s = "s1" THEN {"INSERT ?,?,?"} ELSE {"SELECT *", "SELECT text"}

\* the connection the statements are prepared from
StatementConns == {"c1"}

NextStatement ==
    \/ \E c \in StatementConns, name \in DataNames : OpenMemory(c, name)
    \/ \E c \in StatementConns : Drop(c)
    \/ \E c \in StatementConns : Exec(c, <<"CREATE">>)
    \/ \E s \in StmtIds, c \in StatementConns :
          \E text \in TextsOf(s) : Prepare(s, c, text)
    \/ \E value \in BindValues : BindExec("s1", value)
    \/ \E types \in RowTypes : Rows("s2", types)
    \/ \E types \in RowTypes : Row("s2", types)
    \/ \E s \in StmtIds : Finalize(s)

SpecStatement == Init /\ [][NextStatement]_vars

\* Statements and the connections they are prepared from coming and going:
\* two connections, a statement prepared from either, one value to write
LifetimeValues == { <<RText(<<"t">>), RInt(1), RBlob(<<0>>)>> }

NextLifetime ==
    \/ \E c \in ConnIds, name \in DataNames : OpenMemory(c, name)
    \/ \E c \in ConnIds : Drop(c)
    \/ \E c \in ConnIds : Exec(c, <<"CREATE">>)
    \/ \E s \in StmtIds, c \in ConnIds : \E text \in TextsOf(s) : Prepare(s, c, text)
    \/ \E value \in LifetimeValues : BindExec("s1", value)
    \/ Rows("s2", Tuple3)
    \/ \E s \in StmtIds : Finalize(s)

SpecLifetime == Init /\ [][NextLifetime]_vars

----------------------------------------------------------------------------
(* Threads.  Every operation is a blocking call: the thread enters it and
   returns from it, and the engine acts on the handle in between.  A
   Connection is Send and not Sync: the thread that owns the value is the only
   one that can name it, and it can give it away when nothing borrows it. *)

\* a mutation of CanUse: a Connection can be used from every thread (Sync)
CanUse_Shared(t, c) == TRUE

\* thread t can call a method of c: it owns the value
CanUse(t, c) == threads.owner[c] = t

\* the statements the threads run: the table is created, a row is inserted
\* and deleted again, and the prepared SELECT is stepped through
ThreadQuery == <<"CREATE">>
ThreadInsert == <<"INSERT x", "DELETE x">>
ThreadStatement == "SELECT *"

\* the calls a thread may make: on one connection, from one to the other, on a
\* statement
Calls ==
    {[NoCall EXCEPT !.op = op, !.c = c] : op \in {"exec", "insert", "close"}, c \in ConnIds}
    \cup {[NoCall EXCEPT !.op = "backup_main", !.c = c, !.d = d] : c \in ConnIds, d \in ConnIds}
    \cup {[NoCall EXCEPT !.op = op, !.c = c, !.s = s] :
             op \in {"prepare", "step", "finalize"}, c \in ConnIds, s \in StmtIds}

\* the variable in which a thread holds its Statement: a Statement stays on
\* the thread that prepared it
StmtOf(t) == IF t = "t1" THEN "s1" ELSE "s2"

\* the native handles a call works on
HandlesOf(call) ==
    IF call.op = "none" THEN {}
    ELSE {conns[call.c].sqlite3} \cup (IF call.d = "-" THEN {} ELSE {conns[call.d].sqlite3})

\* thread t opens c: the new Connection is t's
ThreadOpen(t, c, name) ==
    /\ threads.at[t] = NoCall
    /\ ~Live(c)
    /\ \E o \in {open_memory(Engine, name)} :
       /\ Fits(o.E)
       /\ SetEngine(o.E)
       /\ conns' = [conns EXCEPT ![c] = o.conn]
       /\ origin' = [origin EXCEPT ![c] = IF o.panic THEN NoOrigin
                                          ELSE [by |-> "open_memory", name |-> name,
                                                fallback |-> FALSE]]
       /\ result' = [NoResult EXCEPT !.op = "open_memory", !.c = c, !.arg = name,
                                     !.panic = o.panic, !.t = t]
    /\ threads' = [threads EXCEPT !.owner[c] = t]
    /\ UNCHANGED <<code, converted, editor, stmts>>

\* thread t enters a call: it has to own the Connections it names, a statement
\* is used where its Connection is, and a Connection that is borrowed cannot
\* be consumed
Enter(t, call) ==
    /\ threads.at[t] = NoCall
    /\ Live(call.c) /\ CanUse(t, call.c)
    /\ call.d # "-" => Live(call.d) /\ CanUse(t, call.d)
    /\ call.s \in {"-", StmtOf(t)}
    /\ call.op = "close" => ~Borrowed(call.c)
    /\ call.op = "prepare" => ~stmts[call.s].live
    /\ call.op \in {"step", "finalize"} => stmts[call.s].live /\ stmts[call.s].conn = call.c
    /\ threads' = [threads EXCEPT !.at[t] = call]
    /\ UNCHANGED <<conns, origin, handles, stores, result, misuse, code, converted, editor,
                   stmts>>

\* what the call a thread is inside does by the time it returns
Complete(E, call) ==
    CASE call.op = "exec" ->
           Bind(exec(E, conns[call.c], ThreadQuery), LAMBDA x :
                [E |-> x.E, r |-> x.r, conn |-> conns[call.c], stmt |-> NoStatement])
      [] call.op = "insert" ->
           Bind(insert(E, conns[call.c], ThreadInsert), LAMBDA x :
                [E |-> x.E, r |-> x.r, conn |-> conns[call.c], stmt |-> NoStatement])
      [] call.op = "backup_main" ->
           Bind(backup_main(E, conns[call.c], conns[call.d]), LAMBDA x :
                [E |-> x.E, r |-> x.r, conn |-> conns[call.c], stmt |-> NoStatement])
      [] call.op = "prepare" ->
           Bind(Statement_prepare(E, call.c, conns[call.c], ThreadStatement), LAMBDA x :
                [E |-> x.E, r |-> x.r, conn |-> conns[call.c], stmt |-> x.stmt])
      [] call.op = "step" ->
           Bind(Statement_rows(E, stmts[call.s], Tuple3), LAMBDA x :
                [E |-> x.E, r |-> x.r, conn |-> conns[call.c], stmt |-> stmts[call.s]])
      [] call.op = "finalize" ->
           [E |-> Statement_drop(E, stmts[call.s]), r |-> Ok, conn |-> conns[call.c],
            stmt |-> NoStatement]
      [] call.op = "close" ->
           [E |-> drop(E, conns[call.c]), r |-> Ok, conn |-> NoConn, stmt |-> NoStatement]

\* thread t returns from the call it is inside
Return(t) ==
    /\ threads.at[t] # NoCall
    /\ \E call \in {threads.at[t]} : \E x \in {Complete(Engine, call)} :
       /\ Fits(x.E)
       /\ SetEngine(x.E)
       /\ conns' = [conns EXCEPT ![call.c] = x.conn]
       /\ origin' = IF x.conn.live THEN origin ELSE [origin EXCEPT ![call.c] = NoOrigin]
       /\ stmts' = IF call.s = "-" THEN stmts ELSE [stmts EXCEPT ![call.s] = x.stmt]
       /\ result' = [NoResult EXCEPT !.op = call.op, !.c = call.c, !.d = call.d,
                                     !.s = call.s, !.r = x.r, !.t = t]
    /\ threads' = [threads EXCEPT !.at[t] = NoCall]
    /\ UNCHANGED <<code, converted, editor>>

\* the owner of c gives it to thread t: it is inside no call, and nothing
\* borrows c
Move(c, t) ==
    /\ Live(c)
    /\ threads.owner[c] # t
    /\ threads.at[threads.owner[c]] = NoCall
    /\ ~Borrowed(c)
    /\ threads' = [threads EXCEPT !.owner[c] = t]
    /\ UNCHANGED <<conns, origin, handles, stores, result, misuse, code, converted, editor,
                   stmts>>

NextThreads ==
    \/ \E t \in Threads, c \in ConnIds, name \in DataNames : ThreadOpen(t, c, name)
    \/ \E t \in Threads, call \in Calls : Enter(t, call)
    \/ \E t \in Threads : Return(t)
    \/ \E c \in ConnIds, t \in Threads : Move(c, t)

SpecThreads == Init /\ [][NextThreads]_vars

----------------------------------------------------------------------------
(* error_to_result on its own: a code is drawn and converted *)

Codes == (-2 .. MaxCode) \cup {256, 266, SQLITE_ABORT_ROLLBACK, SQLITE_CONSTRAINT_UNIQUE}

InitCodes == InitCommon /\ code \in Codes /\ converted = Ok /\ editor = IdleEditor

Convert ==
    /\ converted' = error_to_result(code)
    /\ result' = [NoResult EXCEPT !.op = "error_to_result"]
    /\ UNCHANGED <<conns, origin, handles, stores, misuse, code, editor, stmts, threads>>

NextCodes == Convert

SpecCodes == InitCodes /\ [][NextCodes]_vars

----------------------------------------------------------------------------
(* crates/editor/src/mouse_context_menu.rs *)

\* EditorMode
EditorModes == {"SingleLine", "AutoHeight", "Full"}

\* display points of the buffer, and positions on the screen
DisplayPoints == 0 .. MaxPoint
Positions == {<<0, 0>>, <<1, 2>>}

\* the four entries deploy_context_menu gives the menu
MenuItems ==
    << [label |-> "Rename Symbol", action |-> "Rename"],
       [label |-> "Go To Definition", action |-> "GoToDefinition"],
       [label |-> "Find All References", action |-> "FindAllReferences"],
       [label |-> "Code Actions", action |-> "ToggleCodeActions"] >>

\* the selections an editor may hold when the menu is asked for: one cursor, one
\* range, or two cursors
SelectionSets ==
    { {[start |-> x[1], end |-> x[2]]} :
        x \in {y \in DisplayPoints \X DisplayPoints : y[2] \in {y[1], MaxPoint}} }
        \cup { {[start |-> 0, end |-> 0], [start |-> MaxPoint, end |-> MaxPoint]} }

\* the editors of the model: any mode, with or without a project, any of the
\* selections, the menu hidden or left open by an earlier click
Editors ==
    { [mode |-> m, project |-> p,
       selections |-> [disjoint |-> d, pending |-> NoSelection],
       mouse_context_menu |-> [visible |-> v, position |-> <<0, 0>>,
                               items |-> IF v THEN MenuItems ELSE <<>>],
       notified |-> FALSE] :
        m \in EditorModes, p \in BOOLEAN, d \in SelectionSets, v \in BOOLEAN }

\* MutableSelectionsCollection::clear_disjoint
clear_disjoint(s) == [s EXCEPT !.disjoint = {}]

\* MutableSelectionsCollection::set_pending_display_range
set_pending_display_range(s, start, end, mode) ==
    [s EXCEPT !.pending = [start |-> start, end |-> end, mode |-> mode]]

\* ContextMenu::show: a menu given entries becomes visible at the position
show(menu, position, items) ==
    IF items # <<>>
    THEN [menu EXCEPT !.visible = TRUE, !.position = position, !.items = items]
    ELSE [menu EXCEPT !.visible = FALSE]

\* a mutation of deploy_context_menu: the editor's project is not looked at
deploy_context_menu_AnyProject(ed, position, point) ==
    IF ed.mode # "Full" THEN ed
    ELSE [ed EXCEPT
            !.selections = set_pending_display_range(clear_disjoint(@), point, point,
                                                     "Character"),
            !.mouse_context_menu = show(@, position, MenuItems),
            !.notified = TRUE]

\* deploy_context_menu
deploy_context_menu(ed, position, point) ==
    IF ed.mode # "Full" THEN ed
    ELSE IF ~ed.project THEN ed
    ELSE [ed EXCEPT
            !.selections = set_pending_display_range(clear_disjoint(@), point, point,
                                                     "Character"),
            !.mouse_context_menu = show(@, position, MenuItems),
            !.notified = TRUE]

\* every selection of the editor: the disjoint ones and the pending one
AllSelections(ed) ==
    {[start |-> x.start, end |-> x.end] :
        x \in {[start |-> y.start, end |-> y.end, mode |-> "-"] :
                  y \in ed.selections.disjoint}
              \cup ({ed.selections.pending} \ {NoSelection})}

\* the action DeployMouseContextMenu { position, point } is dispatched
DeployContextMenu(position, point) ==
    /\ editor' = deploy_context_menu(editor, position, point)
    /\ result' = [NoResult EXCEPT !.op = "deploy_context_menu",
                                  !.position = position, !.point = point]
    /\ UNCHANGED <<conns, origin, handles, stores, misuse, code, converted, stmts,
                   threads>>

InitEditor == InitCommon /\ code = 0 /\ editor \in Editors

NextEditor == \E position \in Positions, point \in DisplayPoints :
                  DeployContextMenu(position, point)

SpecEditor == InitEditor /\ [][NextEditor]_vars

----------------------------------------------------------------------------
(* The claims *)

MigrationOf(domain) == CHOOSE m \in Migrations : m.domain = domain

StepsOf(m) == 0 .. (Len(m.steps) - 1)

Done(s, domain) == {p[2] : p \in {a \in s.done : a[1] = domain}}

Owned(h) == \E c \in ConnIds : conns[c].live /\ conns[c].sqlite3 = h

\* C1: open_file never lets an open failure out: whenever the file-backed
\* attempt fails, open_file returns (it does not panic) a live connection that
\* is not persistent, is the named memory database of that location, and is
\* open for use.
C1_OpenFileAlwaysFallsBack ==
    (result.op = "open_file" /\ result.fileFailed)
        => /\ ~result.panic
           /\ conns[result.c].live
           /\ ~persistent(conns[result.c])
           /\ handles[conns[result.c].sqlite3].state = "open"
           /\ KeyOf(result.c) = [kind |-> "mem", path |-> result.arg, id |-> 0]

\* C2: every native handle an open attempt produced is closed exactly once:
\* a handle that a live Connection owns is open and was never closed, every
\* other handle (of a dropped Connection, of a failed open attempt) was closed
\* once, no handle is owned twice, and no engine call was made on a handle
\* after it was closed.
C2_HandleClosedExactlyOnce ==
    /\ ~misuse
    /\ \A h \in DOMAIN handles :
         /\ handles[h].closes <= 1
         /\ Owned(h) => handles[h].closes = 0 /\ handles[h].state = "open"
         /\ ~Owned(h) => handles[h].closes = 1 /\ handles[h].state = "closed"
    /\ \A c1, c2 \in ConnIds :
         (c1 # c2 /\ conns[c1].live /\ conns[c2].live)
             => conns[c1].sqlite3 # conns[c2].sqlite3

\* the failed file attempt of open_file was closed and the fallback
\* connection is alive, after which an operation on it failed
C2_Witness ==
    /\ result.op \in {"exec", "insert", "backup_main"}
    /\ ~result.r.ok
    /\ origin[result.c].by = "open_file"
    /\ ~persistent(conns[result.c])
    /\ \E h \in DOMAIN handles : handles[h].closes = 1

\* C3: exec returns Ok exactly when the engine ran this call's SQL without a
\* failure (rc is what sqlite3_exec returned for this call), whatever error
\* an earlier operation left on the handle.
C3_ExecReportsThisCall ==
    result.op = "exec" => (result.r.ok <=> result.rc = SQLITE_OK)

\* an exec that succeeded on a handle on which the call before had failed
C3_Witness ==
    /\ result.op = "exec"
    /\ result.r.ok
    /\ result.before # SQLITE_OK

\* C4: error_to_result returns Ok for the codes 0 (success) and 100 (row
\* available) and for no other; for every other code the error carries that
\* code and the engine's message for it.
C4_OnlyOkAndRowAreNotErrors ==
    result.op = "error_to_result"
        => /\ converted.ok <=> code \in {0, 100}
           /\ ~converted.ok => /\ converted.code = code
                               /\ converted.message = sqlite3_errstr(code)

\* "no more rows" (101) was converted, to an error
C4_Witness ==
    /\ result.op = "error_to_result"
    /\ code = 101
    /\ ~converted.ok
    /\ converted.message = "no more rows available"

\* the statements of a query that insert a row
InsertsOf(q) == {i \in DOMAIN q : Sql(q[i]).op = "insert"}

\* C5: after a call that inserted exactly one row (insert, or a prepared
\* INSERT followed by last_insert_id) returned Ok, selecting by rowid = the
\* returned identifier on the same connection yields exactly the inserted row.
C5_RowIdFindsInsertedRow ==
    ( /\ result.op \in {"insert", "prepared_insert"}
      /\ result.r.ok
      /\ Cardinality(InsertsOf(result.arg)) = 1 )
        => LET i == CHOOSE j \in InsertsOf(result.arg) : TRUE
               rest == SubSeq(result.arg, i + 1, Len(result.arg))
               v == Sql(result.arg[i]).val
           IN  SelectByRowid(stores[KeyOf(result.c)], result.id)
                   = IF \E j \in DOMAIN rest : Sql(rest[j]) = [op |-> "delete", val |-> v]
                     THEN {} ELSE {v}

\* an insert whose identifier is not the number of rows of the table, on a
\* connection that is not the one that made the insert before it
C5_Witness ==
    /\ result.op = "insert"
    /\ result.r.ok
    /\ result.id = 2
    /\ stores[KeyOf(result.c)].rows = {<<2, "y">>}
    /\ \E h \in DOMAIN handles : handles[h].state = "open" /\ handles[h].rowid = 1

\* a step of the machine in which the operation named in result' ran
Wrote == result'.op \in {"exec", "insert", "prepared_insert"}

C7_BackupReplacesDestination ==
    [][ (result'.op = "backup_main" /\ result'.r.ok)
            => LET sk == KeyOf(result'.c)
                   dk == KeyOf(result'.d)
               IN  /\ \A row \in stores[dk].rows \ stores[sk].rows :
                        row \notin stores'[dk].rows
                   /\ (stores[dk].t /\ ~stores[sk].t) => ~stores'[dk].t
                   /\ stores'[sk] = stores[sk]
      ]_vars

\* a backup returned Ok over a destination that held rows the source did not
C7_Witness ==
    /\ result.op = "backup_main"
    /\ result.r.ok
    /\ result.gone > 0

\* C8: two live connections opened with open_memory share one database when
\* their names are the same, and are on different databases when their names
\* differ.
C8_SharedExactlyBySameName ==
    \A c1, c2 \in ConnIds :
        ( /\ c1 # c2
          /\ origin[c1].by = "open_memory"
          /\ origin[c2].by = "open_memory" )
            => (origin[c1].name = origin[c2].name <=> KeyOf(c1) = KeyOf(c2))

\* C13: persistent() of a live connection is true exactly when a file-backed
\* open that succeeded produced it, and false when open_memory did, the
\* fallback inside open_file included; and no step changes it while the
\* connection lives.
C13_PersistentTellsOpenPath ==
    [][ \A c \in ConnIds :
          /\ conns'[c].live
               => (persistent(conns'[c])
                     <=> (origin'[c].by = "open_file" /\ ~origin'[c].fallback))
          /\ (conns[c].live /\ conns'[c].live)
               => persistent(conns'[c]) = persistent(conns[c])
      ]_vars

\* a statement ran on a connection of the fallback, which is not persistent
C13_Witness ==
    /\ result.op = "exec"
    /\ result.r.ok
    /\ origin[result.c].by = "open_file"
    /\ origin[result.c].fallback
    /\ ~persistent(conns[result.c])

\* C18: backup_main makes no engine call with a backup handle that
\* sqlite3_backup_init did not give; when the initialisation fails it returns
\* an error and leaves every database as it was; and it returns an error
\* whenever the copy step did not run to its end.
C18_BackupNeverUsesFailedHandle ==
    [][ result'.op = "backup_main"
            => /\ ~result'.null
               /\ conns[result'.c].sqlite3 = conns[result'.d].sqlite3
                    => (~result'.r.ok /\ stores' = stores)
               /\ result'.rc # SQLITE_DONE => ~result'.r.ok
      ]_vars

\* database s after the first n statements of q, each run on what the one
\* before it left
RECURSIVE AfterFirst(_, _, _)
AfterFirst(s, q, n) ==
    IF n = 0 THEN s ELSE RunStmt(AfterFirst(s, q, n - 1), Sql(q[n])).s

\* statement n of q succeeds when it runs after the n - 1 before it
Succeeds(s, q, n) == RunStmt(AfterFirst(s, q, n - 1), Sql(q[n])).ok

\* C19: exec runs the statements of its query in the order written up to the
\* first that fails: the database is left as the statements before that one
\* made it, the failing statement and those after it change nothing, and exec
\* returns an error; when none fails the database is as all of them made it
\* and exec returns Ok.  No other database changes.
C19_ExecStopsAtFirstFailure ==
    [][ (result'.op = "exec" /\ CString_new_ok(result'.arg))
            => \E n \in 0 .. Len(result'.arg) :
                 /\ \A i \in 1 .. n : Succeeds(stores[KeyOf(result'.c)], result'.arg, i)
                 /\ n < Len(result'.arg)
                      => ~Succeeds(stores[KeyOf(result'.c)], result'.arg, n + 1)
                 /\ stores' = [stores EXCEPT ![KeyOf(result'.c)] =
                                  AfterFirst(@, result'.arg, n)]
                 /\ result'.r.ok <=> n = Len(result'.arg)
      ]_vars

\* an exec of three statements failed at the second: the row of the first is
\* in the table, the row of the third is not
C19_Witness ==
    /\ result.op = "exec"
    /\ result.arg = <<"INSERT y", "BAD", "INSERT x">>
    /\ ~result.r.ok
    /\ stores[KeyOf(result.c)].rows = {<<1, "y">>}

\* what c.last_insert_id() returns before and after a step
IdBefore(c) == last_insert_id(Engine, conns[c])
IdAfter(c) ==
    last_insert_id([handles |-> handles', stores |-> stores', misuse |-> misuse'],
                   conns'[c])

\* C20: the identifier insert returns is state of the connection: an insert
\* whose exec fails returns the error and no identifier; one that succeeds with
\* SQL that inserts no row returns Ok with the identifier the connection held
\* before the call, which is that of the last row inserted through it (0 on a
\* connection just opened); and a statement run through one connection never
\* changes the identifier of another.
C20_InsertIdIsPerConnection ==
    [][ /\ result'.op = "insert"
            => /\ ~result'.r.ok => result'.id = 0
               /\ (result'.r.ok /\ InsertsOf(result'.arg) = {})
                    => result'.id = IdBefore(result'.c)
               /\ (result'.r.ok /\ InsertsOf(result'.arg) # {})
                    => /\ result'.id = IdAfter(result'.c)
                       /\ result'.id
                            = MaxId(AfterFirst(stores[KeyOf(result'.c)], result'.arg,
                                               Len(result'.arg)).rows
                                    \cup stores[KeyOf(result'.c)].rows)
        /\ \A c \in ConnIds :
             /\ (conns[c].live /\ conns'[c].live /\ result'.c # c)
                  => IdAfter(c) = IdBefore(c)
             /\ (~conns[c].live /\ conns'[c].live) => IdAfter(c) = 0
      ]_vars

\* an insert whose SQL inserted nothing returned the identifier of this
\* connection's row, after the other connection had inserted a later one
C20_Witness ==
    /\ result.op = "insert"
    /\ result.arg = <<"DELETE x">>
    /\ result.r.ok
    /\ result.id = 1
    /\ stores[KeyOf(result.c)].rows = {<<2, "y">>}

\* C16: deploy_context_menu on an editor in Full mode that has a project
\* leaves one selection, the cursor at the clicked point, and the menu visible
\* at the given position; on any other editor it leaves the selections and
\* the menu's visibility as they were.
C16_MenuOnlyInFullModeWithProject ==
    [][ result'.op = "deploy_context_menu"
            => IF editor.mode = "Full" /\ editor.project
               THEN /\ AllSelections(editor')
                         = {[start |-> result'.point, end |-> result'.point]}
                    /\ editor'.mouse_context_menu.visible
                    /\ editor'.mouse_context_menu.position = result'.position
               ELSE /\ editor'.selections = editor.selections
                    /\ editor'.mouse_context_menu.visible
                         = editor.mouse_context_menu.visible
      ]_vars

\* the menu was deployed at a point and a position that are not the defaults
C16_Witness ==
    /\ result.op = "deploy_context_menu"
    /\ editor.mode = "Full"
    /\ editor.project
    /\ editor.mouse_context_menu.visible
    /\ editor.mouse_context_menu.position = <<1, 2>>
    /\ AllSelections(editor) = {[start |-> 1, end |-> 1]}

\* the database the connection of the last operation is on
ResultStore == stores[KeyOf(result.c)]

\* C11: when the one row of a table was written by a pass that bound a text
\* to the text column, row::<String>() of SELECT text on that connection
\* returns Ok with a string equal to the text that was bound.
C11_TextRoundTrip ==
    ( /\ result.op = "row"
      /\ result.types = <<"String">>
      /\ stmts[result.s].sql = "SELECT text"
      /\ Cardinality(ResultStore.rows) = 1
      /\ Len(ResultStore.log) = 1 )
        => /\ result.r.ok
           /\ result.value = <<ResultStore.log[1][1]>>

\* a text of three characters, the second the zero byte and the first of two
\* bytes, was read back
C11_Witness ==
    /\ result.op = "row"
    /\ result.types = <<"String">>
    /\ result.r.ok
    /\ Len(ResultStore.log) = 1
    /\ result.value = <<RText(<<"E", "Z", "t">>)>>

\* C12: rows::<T>() of SELECT * returns one value per row of the table;
\* when every row was written by a pass that bound a (text, integer, blob)
\* tuple, rows::<(String, i64, Vec<u8>)>() returns Ok with the tuples that
\* were bound, in the order they were inserted.
C12_RowsInOrderUnchanged ==
    ( /\ result.op = "rows"
      /\ stmts[result.s].sql = "SELECT *" )
        => /\ result.r.ok => Len(result.value) = Cardinality(ResultStore.rows)
           /\ ( /\ result.types = Tuple3
                /\ Len(ResultStore.log) = Cardinality(ResultStore.rows)
                /\ \A i \in DOMAIN ResultStore.log : Len(ResultStore.log[i]) = 3 )
                 => /\ result.r.ok
                    /\ result.value = ResultStore.log

\* two different tuples were read back
C12_Witness ==
    /\ result.op = "rows"
    /\ result.types = Tuple3
    /\ result.r.ok
    /\ Len(result.value) = 2
    /\ result.value[1] # result.value[2]
    /\ result.value[2][3] = RBlob(<<0, 1, 64>>)

\* C14: a live Statement's Connection is alive, holds the handle the
\* statement was prepared on, and that handle is open; no engine call is made
\* on a closed handle.
C14_StatementNeverOutlivesConnection ==
    /\ ~misuse
    /\ \A s \in StmtIds :
         stmts[s].live
             => /\ conns[stmts[s].conn].live
                /\ conns[stmts[s].conn].sqlite3 = stmts[s].sqlite3
                /\ handles[stmts[s].sqlite3].state = "open"

\* a connection was dropped, its statement finalized before, while a
\* statement of the other connection is alive
C14_Witness ==
    /\ result.op = "drop"
    /\ \E s \in StmtIds : stmts[s].live /\ stmts[s].conn # result.c
    /\ \E h \in DOMAIN handles : handles[h].closes = 1

\* C15: a Connection may be moved to another thread and used there, but in no
\* interleaving are two threads inside an operation (exec, insert, prepare,
\* backup_main, statement step, close) on the same native handle at the same
\* time
C15_OneThreadInsideAHandle ==
    \A t1, t2 \in Threads :
        t1 # t2 => HandlesOf(threads.at[t1]) \cap HandlesOf(threads.at[t2]) = {}

\* the second thread is inside an operation on a connection that the first
\* thread was the last to use
C15_Witness ==
    /\ result.t = "t1" /\ result.op \in {"exec", "insert", "step"}
    /\ threads.at["t2"].op \in {"exec", "insert", "prepare", "backup_main", "close"}
    /\ threads.at["t2"].c = result.c
    /\ threads.at["t1"].op # "none"

\* the row an INSERT of three parameters writes from a value alone
BuiltFrom(value) ==
    [i \in 1 .. TableColumns |-> IF i <= Len(value) THEN Encode(value[i]) ELSE Null]

AllRecorded(s, m) == StepsOf(m) \subseteq Recorded(s, m.domain)

\* C9: a run of a Migration that returns Ok leaves every step recorded, and a
\* run on a connection whose database has every step recorded executes no
\* step, returns Ok and leaves the database (schema, rows and bookkeeping) as
\* it was; no step runs to completion twice on a database.
C9_MigrationRunsOnce ==
    [][ result'.op = "migrate"
            => LET k == KeyOf(result'.c)
                   m == MigrationOf(result'.d)
               IN  /\ result'.r.ok => AllRecorded(stores'[k], m)
                   /\ AllRecorded(stores[k], m)
                        => /\ result'.tried = <<>>
                           /\ result'.r.ok
                           /\ stores'[k] = stores[k]
                   /\ ~stores'[k].again
      ]_vars

\* a second run of a two-step Migration: nothing was executed, Ok was returned
C9_Witness ==
    /\ result.op = "migrate"
    /\ result.d = "kv"
    /\ result.r.ok
    /\ result.tried = <<>>
    /\ Recorded(stores[KeyOf(result.c)], "kv") = {0, 1}

\* the first step of m that s does not record (the number of steps when all are)
FirstUnrecorded(s, m) ==
    CHOOSE i \in 0 .. Len(m.steps) :
        /\ i \in StepsOf(m) => i \notin Recorded(s, m.domain)
        /\ \A j \in 0 .. (i - 1) : j \in Recorded(s, m.domain)

\* C10: on every database the steps recorded for a domain are exactly the
\* steps that ran to completion and are the first n steps for some n; a run
\* executes the steps from the first unrecorded one on, in ascending order,
\* stops at the first that fails, which it does not record (nor any later
\* one), and keeps what was recorded before.
C10_RecordedIsCompletedPrefix ==
    [][ /\ \A k \in DOMAIN stores', m \in Migrations :
             /\ Recorded(stores'[k], m.domain) = Done(stores'[k], m.domain)
             /\ \E n \in 0 .. Len(m.steps) : Recorded(stores'[k], m.domain) = 0 .. (n - 1)
        /\ result'.op = "migrate"
             => LET k     == KeyOf(result'.c)
                    m     == MigrationOf(result'.d)
                    first == FirstUnrecorded(stores[k], m)
                    tried == result'.tried
                    after == Recorded(stores'[k], m.domain)
                IN  /\ \A i \in DOMAIN tried : tried[i] = first + i - 1
                    /\ Recorded(stores[k], m.domain) \subseteq after
                    /\ result'.r.ok => after = StepsOf(m)
                    /\ (~result'.r.ok /\ tried # <<>>)
                         => after = 0 .. (tried[Len(tried)] - 1)
      ]_vars

\* a run that resumed at a later step than the first and failed there
C10_Witness ==
    /\ result.op = "migrate"
    /\ result.d = "b"
    /\ ~result.r.ok
    /\ result.tried = <<2>>
    /\ Recorded(stores[KeyOf(result.c)], "b") = {0, 1}

====
